---- MODULE Spec2Model ----
(***************************************************************************)
(* FilesystemEventMonitor (src/example/filesystem_event_monitor.hpp).      *)
(*                                                                         *)
(* The monitor owns an inotify descriptor, one watch on the parent         *)
(* directory of a target path and at most one watch on the target file.    *)
(* A read completion callback decodes a batch of inotify_event records     *)
(* out of a byte buffer (readEvents) and re-issues the read                *)
(* (monitorFilesystemEvent).                                               *)
(*                                                                         *)
(* The model keeps the byte buffer as bytes: a batch is drawn as a list of *)
(* records, encoded the way the kernel lays them out, and decoded again by *)
(* the loop of readEvents, one loop iteration per step.                    *)
(***************************************************************************)
EXTENDS Integers, Sequences, FiniteSets, TLC

(***************************************************************************)
(* Bounds of the model.                                                    *)
(***************************************************************************)
\* watch descriptors the OS may hand out are 1..MaxWd
MaxWd == 3
\* a batch holds at most MaxItems items (complete records, the last one
\* possibly a truncated fragment)
MaxItems == 2
\* read completions delivered to the callback over the monitor's life
MaxReads == 2

(***************************************************************************)
(* Program constants.                                                      *)
(***************************************************************************)
\* sizeof(struct inotify_event): int wd; uint32 mask, cookie, len
iEventSize == 16
\* <sys/inotify.h> event bits the code switches on (and some it does not)
IN_ACCESS == 1
IN_MODIFY == 2
IN_ATTRIB == 4
IN_CLOSE_WRITE == 8
IN_CLOSE_NOWRITE == 16
IN_OPEN == 32
IN_MOVED_FROM == 64
IN_MOVED_TO == 128
IN_CREATE == 256
IN_DELETE == 512
IN_DELETE_SELF == 1024
IN_MOVE_SELF == 2048
\* the kernel's queue overflow record: wd is -1, no name
IN_Q_OVERFLOW == 16384
\* set by the kernel next to the event bit when the entry is a directory
IN_ISDIR == 1073741824
\* the value of an integer member that holds no descriptor
NoDesc == -1
\* the descriptor inotify_init1 returns when it succeeds
SomeFd == 3

\* pathname.filename(), as bytes ("f"); another entry of the directory ("g")
fileName == <<102>>
otherName == <<103>>

Handles == 1..MaxWd

(***************************************************************************)
(* Byte layout of struct inotify_event (little endian, as on the build's   *)
(* targets).  Values are kept below 2^31 except wd, which is signed.       *)
(***************************************************************************)
Byte(v, k) == (v \div (256 ^ k)) % 256

\* four bytes of an unsigned 32 bit value below 2^31
LE32(v) == <<Byte(v, 0), Byte(v, 1), Byte(v, 2), Byte(v, 3)>>

\* four bytes of a signed 32 bit value in two's complement
LES32(v) == IF v >= 0 THEN LE32(v)
            ELSE LET w == v + 2147483647 + 1   \* v + 2^31, in 0..2^31-1
                 IN  <<Byte(w, 0), Byte(w, 1), Byte(w, 2), Byte(w, 3) + 128>>

\* what memcpy into an unsigned member yields from buf[i..i+3] (i is 0-based)
U32At(buf, i) == buf[i + 1] + 256 * buf[i + 2] + 65536 * buf[i + 3]
                 + 16777216 * buf[i + 4]

\* what memcpy into the int member wd yields from buf[i..i+3]
S32At(buf, i) == IF buf[i + 4] >= 128
                 THEN (buf[i + 1] + 256 * buf[i + 2] + 65536 * buf[i + 3]
                       + 16777216 * (buf[i + 4] - 128)) - 2147483647 - 1
                 ELSE U32At(buf, i)

\* the name field the kernel writes for a name: NUL terminated
NameField(name) == IF name = <<>> THEN <<>> ELSE name \o <<0>>

\* a record as the kernel lays it out: header, then the len bytes of name
Encode(r) == LES32(r.wd) \o LE32(r.mask) \o LE32(0) \o LE32(Len(r.name)) \o r.name

Rec(wd, mask, field) == [wd |-> wd, mask |-> mask, name |-> field]

RECURSIVE Flatten(_)
Flatten(ss) == IF ss = <<>> THEN <<>> ELSE Head(ss) \o Flatten(Tail(ss))

(***************************************************************************)
(* State.                                                                  *)
(***************************************************************************)
VARIABLES
    phase,            \* "new" (members hold their initializers), "alive", "destroyed"
    ctorExit,         \* the return the constructor took: "none", "noFd", "noDir", "done"
    inotifyFd,        \* member inotifyFd
    inotifyConn,      \* descriptor the stream wrapper inotifyConn owns, or NoDesc
    closes,           \* descriptors closed by the latest step, in order
    dirWatchDesc,     \* member dirWatchDesc
    fileWatchDesc,    \* member fileWatchDesc
    osWatches,        \* watches registered at the OS and not yet deregistered
    readPending,      \* an async_read_some is outstanding on inotifyConn
    nReads,           \* async_read_some calls issued so far
    ec,               \* error code of the latest read completion: "none", "ok", "error"
    pc,               \* "idle", or "readEvents" while the callback is inside the loop
    readBuffer,       \* the bytes of the static buffer the latest read filled
    bytesTransferred, \* their count
    index,            \* the cursor of readEvents
    fragStart,        \* offset at which the batch's truncated fragment starts
    calls,            \* OS watch calls made by the latest step, in order
    dispatched,       \* events written out by the latest step, in order
    last              \* what the latest step was and what it looked at: the
                      \* record at the cursor (wd, mask, len, the name its len
                      \* bytes hold, cstr the name the code extracted), its
                      \* offset off, the count iter of loop iterations of this
                      \* readEvents call, the descriptors before the step,
                      \* more and owed (set by a step that leaves readEvents:
                      \* complete records were left unprocessed, one of them a
                      \* directory record for the target), and gone: a
                      \* delete or moved-to for the target was processed and no
                      \* create has registered the file watch since

vars == <<phase, ctorExit, inotifyFd, inotifyConn, closes, dirWatchDesc, fileWatchDesc, osWatches,
          readPending, nReads, ec, pc, readBuffer, bytesTransferred, index,
          fragStart, calls, dispatched, last>>

\* the members and the OS state the watch helpers work on
Watches == [dir |-> dirWatchDesc, file |-> fileWatchDesc, os |-> osWatches,
            calls |-> <<>>]

\* `last' of a step that processed no record
NoRecord(op) == [op |-> op, wd |-> NoDesc, mask |-> 0, len |-> 0, name |-> <<>>,
                 complete |-> FALSE, frag |-> FALSE,
                 preDir |-> dirWatchDesc, preFile |-> fileWatchDesc,
                 off |-> 0, iter |-> 0, cstr |-> <<>>,
                 more |-> FALSE, owed |-> FALSE, gone |-> last.gone]

(***************************************************************************)
(* The OS watch registry: inotify_add_watch and inotify_rm_watch.          *)
(***************************************************************************)
\* values inotify_add_watch may return: -1, or a descriptor no live watch has
AddResults(os) == {NoDesc} \cup (Handles \ {w.wd : w \in os})

OsAdd(os, path, ret) == IF ret = NoDesc THEN os
                        ELSE os \cup {[wd |-> ret, path |-> path]}

OsRm(os, wd) == {w \in os : w.wd # wd}

AddCall(path, ret) == [op |-> "add", path |-> path, wd |-> ret]
RmCall(path, wd) == [op |-> "rm", path |-> path, wd |-> wd]

(***************************************************************************)
(* The watch helpers of the class.  w is the record Watches; ret is what   *)
(* inotify_add_watch returns.                                              *)
(***************************************************************************)
addWatchOnDir(w, ret) ==
    [w EXCEPT !.dir = ret,
              !.os = OsAdd(@, "dir", ret),
              !.calls = Append(@, AddCall("dir", ret))]

rmWatchOnDir(w) ==
    IF w.dir # NoDesc
    THEN [w EXCEPT !.os = OsRm(@, w.dir),
                   !.calls = Append(@, RmCall("dir", w.dir)),
                   !.dir = NoDesc]
    ELSE w

addWatchOnFile(w, ret) ==
    [w EXCEPT !.file = ret,
              !.os = OsAdd(@, "file", ret),
              !.calls = Append(@, AddCall("file", ret))]


\* rmWatchOnFile without the inotify_rm_watch call: the member is reset, the
\* watch stays registered
rmWatchOnFile_KeepsOsWatch(w) ==
    IF w.file # NoDesc THEN [w EXCEPT !.file = NoDesc] ELSE w

rmWatchOnFile(w) ==
    IF w.file # NoDesc
    THEN [w EXCEPT !.os = OsRm(@, w.file),
                   !.calls = Append(@, RmCall("file", w.file)),
                   !.file = NoDesc]
    ELSE w

(***************************************************************************)
(* Construction.                                                           *)
(***************************************************************************)
Init ==
    /\ phase = "new"
    /\ ctorExit = "none"
    /\ inotifyFd = NoDesc
    /\ inotifyConn = NoDesc
    /\ closes = <<>>
    /\ dirWatchDesc = NoDesc
    /\ fileWatchDesc = NoDesc
    /\ osWatches = {}
    /\ readPending = FALSE
    /\ nReads = 0
    /\ ec = "none"
    /\ pc = "idle"
    /\ readBuffer = <<>>
    /\ bytesTransferred = 0
    /\ index = 0
    /\ fragStart = 0
    /\ calls = <<>>
    /\ dispatched = <<>>
    /\ last = [op |-> "none", wd |-> NoDesc, mask |-> 0, len |-> 0, name |-> <<>>,
               complete |-> FALSE, frag |-> FALSE,
               preDir |-> NoDesc, preFile |-> NoDesc,
               off |-> 0, iter |-> 0, cstr |-> <<>>,
               more |-> FALSE, owed |-> FALSE, gone |-> FALSE]


\* the constructor without the return after a failed addWatchOnDir
Constructor_IgnoresDirFailure(w, fd, dret, fret) ==
    IF fd = NoDesc
    THEN [w |-> w, exit |-> "noFd", armed |-> FALSE]
    ELSE [w |-> addWatchOnFile(addWatchOnDir(w, dret), fret),
          exit |-> IF dret = NoDesc THEN "noDir" ELSE "done", armed |-> TRUE]

\* the constructor returning when addWatchOnFile fails, as it does for the
\* directory
Constructor_FileFailureFatal(w, fd, dret, fret) ==
    IF fd = NoDesc
    THEN [w |-> w, exit |-> "noFd", armed |-> FALSE]
    ELSE LET w1 == addWatchOnDir(w, dret)
         IN  IF dret = NoDesc
             THEN [w |-> w1, exit |-> "noDir", armed |-> FALSE]
             ELSE [w |-> addWatchOnFile(w1, fret), exit |-> "done",
                   armed |-> fret # NoDesc]

\* The constructor, given what inotify_init1 and the two inotify_add_watch
\* calls return (dret, fret are looked at only when the call is reached).
Constructor(w, fd, dret, fret) ==
    IF fd = NoDesc
    THEN [w |-> w, exit |-> "noFd", armed |-> FALSE]
    ELSE LET w1 == addWatchOnDir(w, dret)
         IN  IF dret = NoDesc
             THEN [w |-> w1, exit |-> "noDir", armed |-> FALSE]
             ELSE [w |-> addWatchOnFile(w1, fret), exit |-> "done", armed |-> TRUE]

Construct ==
    /\ phase = "new"
    /\ \E fd \in {NoDesc, SomeFd} :
       \E dret \in AddResults(osWatches) :
       \E fret \in AddResults(OsAdd(osWatches, "dir", dret)) :
          LET r == Constructor(Watches, fd, dret, fret)
          IN  /\ inotifyFd' = fd
              \* inotifyConn->assign(inotifyFd)
              /\ inotifyConn' = IF r.armed THEN fd ELSE NoDesc
              /\ dirWatchDesc' = r.w.dir
              /\ fileWatchDesc' = r.w.file
              /\ osWatches' = r.w.os
              /\ calls' = r.w.calls
              /\ ctorExit' = r.exit
              /\ readPending' = r.armed
              /\ nReads' = IF r.armed THEN nReads + 1 ELSE nReads
    /\ phase' = "alive"
    /\ last' = NoRecord("ctor")
    /\ dispatched' = <<>>
    /\ UNCHANGED <<closes, ec, pc, readBuffer, bytesTransferred, index, fragStart>>

(***************************************************************************)
(* Destruction.  The destructor runs between callbacks, never inside one.  *)
(***************************************************************************)

\* the destructor without rmWatchOnFile()
Destructor_SkipsFile(w) == rmWatchOnDir(w)

Destructor(w) == rmWatchOnFile(rmWatchOnDir(w))

\* The descriptors closed at destruction: close(inotifyFd) in the destructor
\* body, then the destructor of the member inotifyConn, which closes the
\* descriptor it was assigned.
ChannelCloses(fd, conn) ==
    <<fd>> \o (IF conn # NoDesc THEN <<conn>> ELSE <<>>)

Destroy ==
    /\ phase = "alive"
    /\ pc = "idle"
    /\ LET w == Destructor(Watches)
       IN  /\ dirWatchDesc' = w.dir
           /\ fileWatchDesc' = w.file
           /\ osWatches' = w.os
           /\ calls' = w.calls
    /\ closes' = ChannelCloses(inotifyFd, inotifyConn)
    /\ inotifyConn' = NoDesc
    /\ phase' = "destroyed"
    /\ readPending' = FALSE
    /\ last' = NoRecord("dtor")
    /\ dispatched' = <<>>
    /\ UNCHANGED <<ctorExit, inotifyFd, nReads, ec, pc, readBuffer,
                   bytesTransferred, index, fragStart>>

(***************************************************************************)
(* getEventString: the description written out for an event mask.  The     *)
(* switch compares the whole mask with each constant.                      *)
(***************************************************************************)
getEventString(mask) ==
    CASE mask = IN_ACCESS        -> "IN_ACCESS"
      [] mask = IN_ATTRIB        -> "IN_ATTRIB"
      [] mask = IN_CLOSE_WRITE   -> "IN_CLOSE_WRITE"
      [] mask = IN_CLOSE_NOWRITE -> "IN_CLOSE_NOWRITE"
      [] mask = IN_CREATE        -> "IN_CREATE"
      [] mask = IN_DELETE        -> "IN_DELETE"
      [] mask = IN_DELETE_SELF   -> "IN_DELETE_SELF"
      [] mask = IN_MODIFY        -> "IN_MODIFY"
      [] mask = IN_MOVE_SELF     -> "IN_MOVE_SELF"
      [] mask = IN_MOVED_FROM    -> "IN_MOVED_FROM"
      [] mask = IN_MOVED_TO      -> "IN_MOVED_TO"
      [] mask = IN_OPEN          -> "IN_OPEN"
      [] OTHER                   -> ""

DirEvent(mask, name) ==
    [handleKind |-> "Directory", description |-> getEventString(mask), name |-> name]

FileEvent(mask) ==
    [handleKind |-> "File", description |-> getEventString(mask), name |-> fileName]

(***************************************************************************)
(* The batches the byte source delivers.  Records refer to the watches of  *)
(* the monitor at the time of the read (d, f), to a descriptor that is not *)
(* live, or are the queue overflow record.  Names are NUL terminated.      *)
(***************************************************************************)
DirRecords(d) ==
    {Rec(d, m, NameField(fileName)) :
        m \in {IN_CREATE, IN_DELETE, IN_MOVED_TO, IN_MODIFY, IN_MOVED_FROM,
               IN_CREATE + IN_ISDIR}}
    \cup {Rec(d, m, NameField(otherName)) : m \in {IN_CREATE, IN_DELETE, IN_MOVED_TO}}
    \cup {Rec(d, IN_CREATE, <<>>)}

FileRecords(f) == IF f = NoDesc THEN {} ELSE {Rec(f, IN_MODIFY, <<>>)}

\* a descriptor of a watch that is gone: the least one that is not live
StaleRecords(d, f) ==
    LET free == Handles \ {d, f}
    IN  {Rec(h, IN_MODIFY, <<>>) : h \in {g \in free : \A k \in free : g <= k}}

OverflowRecords == {Rec(NoDesc, IN_Q_OVERFLOW, <<>>)}

InRecords(d, f) ==
    DirRecords(d) \cup FileRecords(f) \cup StaleRecords(d, f) \cup OverflowRecords

\* records whose cut-off tail may end a batch: they carry a len > 0
FragRecords(d, f) ==
    {Rec(d, IN_CREATE, NameField(fileName))}
    \cup (IF f = NoDesc THEN {} ELSE {Rec(f, IN_MODIFY, NameField(fileName))})

\* a truncated trailing fragment: fewer than iEventSize bytes of a record, or
\* its whole header and all but the last byte of its name
Fragments(d, f) ==
    {SubSeq(Encode(Rec(d, IN_CREATE, NameField(fileName))), 1, 3)}
    \cup {SubSeq(Encode(r), 1, Len(Encode(r)) - 1) : r \in FragRecords(d, f)}

\* sequences of at most n records
RecordSeqs(d, f, n) == UNION {[1..k -> InRecords(d, f)] : k \in 0..n}

EncodeAll(recs) == Flatten([k \in 1..Len(recs) |-> Encode(recs[k])])

(***************************************************************************)
(* The read completion callback of monitorFilesystemEvent.                 *)
(***************************************************************************)
\* monitorFilesystemEvent(): issue the next async_read_some.  The buffer is
\* handed to the read: until it completes the buffer holds no delivered
\* bytes, and the arguments and locals of the returned readEvents are gone.
Rearm ==
    /\ readPending' = TRUE
    /\ nReads' = nReads + 1
    /\ readBuffer' = <<>>
    /\ bytesTransferred' = 0
    /\ index' = 0
    /\ fragStart' = 0

\* the callback calling monitorFilesystemEvent() again after an error
ReadError_Retries ==
    /\ phase = "alive"
    /\ readPending
    /\ nReads <= MaxReads
    /\ ec' = "error"
    /\ Rearm
    /\ calls' = <<>>
    /\ dispatched' = <<>>
    /\ last' = NoRecord("error")
    /\ UNCHANGED <<phase, ctorExit, inotifyFd, inotifyConn, closes, dirWatchDesc, fileWatchDesc,
                   osWatches, pc>>

\* The read completes with ec set: the callback logs and returns.
ReadError ==
    /\ phase = "alive"
    /\ readPending
    /\ nReads <= MaxReads
    /\ ec' = "error"
    /\ readPending' = FALSE
    /\ calls' = <<>>
    /\ dispatched' = <<>>
    /\ last' = NoRecord("error")
    /\ UNCHANGED <<phase, ctorExit, inotifyFd, inotifyConn, closes, dirWatchDesc, fileWatchDesc,
                   osWatches, nReads, pc, readBuffer, bytesTransferred, index,
                   fragStart>>

\* The read completes with a batch: the callback enters readEvents.
ReadComplete ==
    /\ phase = "alive"
    /\ readPending
    /\ nReads <= MaxReads
    /\ \E recs \in RecordSeqs(dirWatchDesc, fileWatchDesc, MaxItems) :
       \E frag \in {<<>>} \cup Fragments(dirWatchDesc, fileWatchDesc) :
          /\ Len(recs) + (IF frag = <<>> THEN 0 ELSE 1) <= MaxItems
          /\ readBuffer' = EncodeAll(recs) \o frag
          /\ bytesTransferred' = Len(EncodeAll(recs)) + Len(frag)
          /\ fragStart' = Len(EncodeAll(recs))
    /\ ec' = "ok"
    /\ readPending' = FALSE
    /\ pc' = "readEvents"
    /\ index' = 0
    /\ calls' = <<>>
    /\ dispatched' = <<>>
    /\ last' = NoRecord("read")
    /\ UNCHANGED <<phase, ctorExit, inotifyFd, inotifyConn, closes, dirWatchDesc, fileWatchDesc,
                   osWatches, nReads>>

(***************************************************************************)
(* readEvents: one step per iteration of the while loop.                   *)
(***************************************************************************)
\* std::string(&readBuffer[i]): the bytes from offset i up to the first NUL.
\* The scan does not look at the record's len.  Every buffer of the model
\* holds a NUL at or after the offsets scanned; the cut at the buffer's end
\* keeps the operator total.
RECURSIVE CStr(_, _)
CStr(buf, i) ==
    IF i >= Len(buf) \/ buf[i + 1] = 0 THEN <<>>
    ELSE <<buf[i + 1]>> \o CStr(buf, i + 1)

\* the name a record's len byte name field holds: up to the first NUL, the
\* end of the field or the end of the valid bytes
RECURSIVE FieldName(_, _, _)
FieldName(buf, i, n) ==
    IF n = 0 \/ i >= Len(buf) \/ buf[i + 1] = 0 THEN <<>>
    ELSE <<buf[i + 1]>> \o FieldName(buf, i + 1, n - 1)

\* memcpy(&event, &readBuffer[index], iEventSize)
EventAt(buf, i) == [wd   |-> S32At(buf, i),
                    mask |-> U32At(buf, i + 4),
                    len  |-> U32At(buf, i + 12)]

event == EventAt(readBuffer, index)

\* filename: std::string filename(&readBuffer[index + iEventSize])
filename == CStr(readBuffer, index + iEventSize)

\* the loop condition
InLoop == (index + iEventSize) <= bytesTransferred

\* the first test of the directory branch: no name, or a name cut off
DirSkips(ev, i, n) == (ev.len = 0) \/ (i + iEventSize + ev.len > n)


\* the directory branch without the filename comparison
NameMatches_Any(name) == TRUE

\* filename != pathname.filename() is false
NameMatches(name) == name = fileName

AtRecord == phase = "alive" /\ pc = "readEvents" /\ InLoop

\* a complete record for the target name with the directory's descriptor d
\* lies in buf between offset i and the end of the complete records
RECURSIVE TargetRecordIn(_, _, _, _)
TargetRecordIn(buf, i, end, d) ==
    IF i + iEventSize > end THEN FALSE
    ELSE LET ev == EventAt(buf, i)
         IN  \/ /\ ev.wd = d
                /\ i + iEventSize + ev.len <= end
                /\ FieldName(buf, i + iEventSize, ev.len) = fileName
             \/ TargetRecordIn(buf, i + iEventSize + ev.len, end, d)

\* `last' of a step that processed the record at the cursor
Seen(op) == [op |-> op, wd |-> event.wd, mask |-> event.mask, len |-> event.len,
             name |-> FieldName(readBuffer, index + iEventSize, event.len),
             complete |-> index + iEventSize + event.len <= bytesTransferred,
             frag |-> index = fragStart,
             preDir |-> dirWatchDesc, preFile |-> fileWatchDesc,
             off |-> index,
             iter |-> last.iter + 1,
             cstr |-> IF op \in {"dirOther", "dirCreate", "dirRemove", "dirDefault"}
                      THEN filename ELSE <<>>,
             more |-> FALSE, owed |-> FALSE, gone |-> last.gone]

\* the members and OS state after the step
Store(w) ==
    /\ dirWatchDesc' = w.dir
    /\ fileWatchDesc' = w.file
    /\ osWatches' = w.os
    /\ calls' = w.calls

\* the cursor moved by the name's length only: index += event.len
NextRecord_SkipsHeader ==
    /\ index' = index + EventAt(readBuffer, index).len
    /\ UNCHANGED <<phase, ctorExit, inotifyFd, inotifyConn, closes, readPending, nReads, ec, pc,
                   readBuffer, bytesTransferred, fragStart>>

\* index += (iEventSize + event.len), and round the loop again
NextRecord ==
    /\ index' = index + iEventSize + event.len
    /\ UNCHANGED <<phase, ctorExit, inotifyFd, inotifyConn, closes, readPending, nReads, ec, pc,
                   readBuffer, bytesTransferred, fragStart>>

\* readEvents returns; the callback goes on to monitorFilesystemEvent()
ReturnToCallback ==
    /\ pc' = "idle"
    /\ Rearm
    /\ UNCHANGED <<phase, ctorExit, inotifyFd, inotifyConn, closes, ec>>

\* event.wd == dirWatchDesc, and the record has no name or a truncated one
DirSkip ==
    /\ AtRecord
    /\ event.wd = dirWatchDesc
    /\ DirSkips(event, index, bytesTransferred)
    /\ Store(Watches)
    /\ dispatched' = <<>>
    /\ last' = Seen("dirSkip")
    /\ NextRecord

\* event.wd == dirWatchDesc, and the name is another entry's
DirOtherName ==
    /\ AtRecord
    /\ event.wd = dirWatchDesc
    /\ ~DirSkips(event, index, bytesTransferred)
    /\ ~NameMatches(filename)
    /\ Store(Watches)
    /\ dispatched' = <<>>
    /\ last' = Seen("dirOther")
    /\ NextRecord


\* case IN_CREATE without the rmWatchOnFile() before addWatchOnFile()
CreateCase_NoRemove(w, ret) == addWatchOnFile(w, ret)

\* case IN_CREATE with a break where the code returns on a failed
\* addWatchOnFile(): the loop goes on to the next record
DirCreate_ContinuesOnFailure ==
    /\ phase = "alive" /\ pc = "readEvents"
    /\ (index + iEventSize) <= bytesTransferred
    /\ EventAt(readBuffer, index).wd = dirWatchDesc
    /\ EventAt(readBuffer, index).len # 0
    /\ index + iEventSize + EventAt(readBuffer, index).len <= bytesTransferred
    /\ CStr(readBuffer, index + iEventSize) = fileName
    /\ EventAt(readBuffer, index).mask = IN_CREATE
    /\ dispatched' = <<DirEvent(IN_CREATE, fileName)>>
    /\ \E ret \in AddResults(rmWatchOnFile(Watches).os) :
          LET w == addWatchOnFile(rmWatchOnFile(Watches), ret)
          IN  /\ dirWatchDesc' = w.dir
              /\ fileWatchDesc' = w.file
              /\ osWatches' = w.os
              /\ calls' = w.calls
    /\ last' = [NoRecord("dirCreate") EXCEPT
          !.wd = dirWatchDesc, !.mask = IN_CREATE, !.name = fileName,
          !.complete = TRUE, !.off = index, !.iter = last.iter + 1]
    /\ index' = index + iEventSize + EventAt(readBuffer, index).len
    /\ UNCHANGED <<phase, ctorExit, inotifyFd, inotifyConn, closes, readPending,
                   nReads, ec, pc, readBuffer, bytesTransferred, fragStart>>

\* case IN_CREATE: the file watch is removed and added again
CreateCase(w, ret) == addWatchOnFile(rmWatchOnFile(w), ret)

DirCreate ==
    /\ AtRecord
    /\ event.wd = dirWatchDesc
    /\ ~DirSkips(event, index, bytesTransferred)
    /\ NameMatches(filename)
    /\ event.mask = IN_CREATE
    /\ dispatched' = <<DirEvent(event.mask, filename)>>
    /\ \E ret \in AddResults(rmWatchOnFile(Watches).os) :
          LET w == CreateCase(Watches, ret)
          IN  /\ Store(w)
              /\ last' = [Seen("dirCreate") EXCEPT
                    !.gone = (@ /\ w.file = NoDesc),
                    !.more = (w.file = NoDesc
                              /\ index + iEventSize + event.len + iEventSize <= fragStart),
                    !.owed = (w.file = NoDesc
                              /\ TargetRecordIn(readBuffer, index + iEventSize + event.len,
                                                fragStart, dirWatchDesc))]
              /\ IF w.file = NoDesc
                 THEN ReturnToCallback      \* if (!addWatchOnFile()) return;
                 ELSE NextRecord

\* case IN_DELETE, case IN_MOVED_TO: the file watch is removed
RemoveCase(w) == rmWatchOnFile(w)

DirRemove ==
    /\ AtRecord
    /\ event.wd = dirWatchDesc
    /\ ~DirSkips(event, index, bytesTransferred)
    /\ NameMatches(filename)
    /\ event.mask \in {IN_DELETE, IN_MOVED_TO}
    /\ dispatched' = <<DirEvent(event.mask, filename)>>
    /\ last' = [Seen("dirRemove") EXCEPT !.gone = TRUE]
    /\ Store(RemoveCase(Watches))
    /\ NextRecord

\* the default case removing the file watch, as case IN_DELETE does
DirDefault_Removes ==
    /\ phase = "alive" /\ pc = "readEvents"
    /\ (index + iEventSize) <= bytesTransferred
    /\ EventAt(readBuffer, index).wd = dirWatchDesc
    /\ EventAt(readBuffer, index).len # 0
    /\ index + iEventSize + EventAt(readBuffer, index).len <= bytesTransferred
    /\ CStr(readBuffer, index + iEventSize) = fileName
    /\ EventAt(readBuffer, index).mask \notin {IN_CREATE, IN_DELETE, IN_MOVED_TO}
    /\ dispatched' = <<DirEvent(EventAt(readBuffer, index).mask, fileName)>>
    /\ LET w == rmWatchOnFile(Watches)
       IN  /\ dirWatchDesc' = w.dir
           /\ fileWatchDesc' = w.file
           /\ osWatches' = w.os
           /\ calls' = w.calls
    /\ last' = [NoRecord("dirDefault") EXCEPT
          !.wd = dirWatchDesc, !.mask = EventAt(readBuffer, index).mask,
          !.name = fileName, !.complete = TRUE, !.off = index,
          !.iter = last.iter + 1]
    /\ index' = index + iEventSize + EventAt(readBuffer, index).len
    /\ UNCHANGED <<phase, ctorExit, inotifyFd, inotifyConn, closes, readPending,
                   nReads, ec, pc, readBuffer, bytesTransferred, fragStart>>

\* default: any other mask of a record for the target name
DirDefault ==
    /\ AtRecord
    /\ event.wd = dirWatchDesc
    /\ ~DirSkips(event, index, bytesTransferred)
    /\ NameMatches(filename)
    /\ event.mask \notin {IN_CREATE, IN_DELETE, IN_MOVED_TO}
    /\ dispatched' = <<DirEvent(event.mask, filename)>>
    /\ last' = Seen("dirDefault")
    /\ Store(Watches)
    /\ NextRecord

\* else if (event.wd == fileWatchDesc)
FileRecord ==
    /\ AtRecord
    /\ event.wd # dirWatchDesc
    /\ event.wd = fileWatchDesc
    /\ dispatched' = <<FileEvent(event.mask)>>
    /\ last' = Seen("file")
    /\ Store(Watches)
    /\ NextRecord

\* neither descriptor: nothing but the cursor moves
UnknownRecord ==
    /\ AtRecord
    /\ event.wd # dirWatchDesc
    /\ event.wd # fileWatchDesc
    /\ dispatched' = <<>>
    /\ last' = Seen("unknown")
    /\ Store(Watches)
    /\ NextRecord

\* the loop condition fails: readEvents returns, the callback re-arms
LoopExit ==
    /\ phase = "alive"
    /\ pc = "readEvents"
    /\ ~InLoop
    /\ Store(Watches)
    /\ dispatched' = <<>>
    /\ last' = [NoRecord("exit") EXCEPT
          !.more = (index + iEventSize <= fragStart),
          !.owed = TargetRecordIn(readBuffer, index, fragStart, dirWatchDesc)]
    /\ ReturnToCallback

Next ==
    \/ Construct
    \/ Destroy
    \/ ReadError
    \/ ReadComplete
    \/ DirSkip
    \/ DirOtherName
    \/ DirCreate
    \/ DirRemove
    \/ DirDefault
    \/ FileRecord
    \/ UnknownRecord
    \/ LoopExit

Spec == Init /\ [][Next]_vars

(***************************************************************************)
(* The decoder on bytes the kernel would not write.  readEvents takes any  *)
(* span and any count: here the batches hold name fields without a NUL and *)
(* headers whose len runs past the delivered bytes, and the 1024 byte      *)
(* buffer holds bytes of earlier reads after the delivered ones.           *)
(***************************************************************************)
\* a len no batch can hold: 2^30, far beyond the 1024 bytes of the buffer
HugeLen == 1073741824

\* a record as it lies in the buffer: the header says len, `bytes' follow
RawRec(wd, mask, len, bytes) ==
    LES32(wd) \o LE32(mask) \o LE32(0) \o LE32(len) \o bytes

RawRecords(d, f) ==
    LET free == Handles \ {d, f}
        stale == {g \in free : \A k \in free : g <= k}
        live == {d} \cup (IF f = NoDesc THEN {} ELSE {f})
    IN  \* the target name in a name field of one byte, no NUL
        {RawRec(d, m, 1, fileName) : m \in {IN_CREATE, IN_DELETE, IN_MODIFY}}
        \* another name, NUL terminated
        \cup {RawRec(d, IN_CREATE, 2, NameField(otherName))}
        \* no name
        \cup {RawRec(h, IN_MODIFY, 0, <<>>) : h \in live \cup stale}
        \* a len that runs past the delivered bytes
        \cup {RawRec(h, IN_MODIFY, HugeLen, <<>>) : h \in live \cup stale}

\* what the buffer holds after the delivered bytes: zeroes (the static array
\* before it was filled that far) or bytes of an earlier, longer read
StaleTails == {<<0>>, <<255, 0>>}

RawSeqs(d, f, n) == UNION {[1..k -> RawRecords(d, f)] : k \in 0..n}

\* The read completes with a batch of such records.
ReadRaw ==
    /\ phase = "alive"
    /\ readPending
    /\ nReads <= MaxReads
    /\ \E recs \in RawSeqs(dirWatchDesc, fileWatchDesc, MaxItems) :
       \E tail \in StaleTails :
          /\ readBuffer' = Flatten(recs) \o tail
          /\ bytesTransferred' = Len(Flatten(recs))
          /\ fragStart' = Len(Flatten(recs))
    /\ ec' = "ok"
    /\ readPending' = FALSE
    /\ pc' = "readEvents"
    /\ index' = 0
    /\ calls' = <<>>
    /\ dispatched' = <<>>
    /\ last' = NoRecord("read")
    /\ UNCHANGED <<phase, ctorExit, inotifyFd, inotifyConn, closes, dirWatchDesc, fileWatchDesc,
                   osWatches, nReads>>

NextRaw ==
    \/ Construct
    \/ Destroy
    \/ ReadError
    \/ ReadRaw
    \/ DirSkip
    \/ DirOtherName
    \/ DirCreate
    \/ DirRemove
    \/ DirDefault
    \/ FileRecord
    \/ UnknownRecord
    \/ LoopExit

SpecRaw == Init /\ [][NextRaw]_vars

(***************************************************************************)
(* Vocabulary of the properties.                                           *)
(***************************************************************************)
RecordOps == {"dirSkip", "dirOther", "dirCreate", "dirRemove", "dirDefault",
              "file", "unknown"}

\* the latest step processed the record at the cursor
RecordStep == last.op \in RecordOps

\* that record carried the directory watch's descriptor
DirScoped == RecordStep /\ last.wd = last.preDir

\* the watches of each kind that are live at the OS
LiveDir == {w \in osWatches : w.path = "dir"}
LiveFile == {w \in osWatches : w.path = "file"}

\* the latest step left both descriptors as they were and made no OS call
NoMutation ==
    /\ dirWatchDesc = last.preDir
    /\ fileWatchDesc = last.preFile
    /\ calls = <<>>

FailedFileAdd == \E j \in 1..Len(calls) : calls[j] = AddCall("file", NoDesc)

\* how often the latest step deregistered descriptor h
RmCount(h) == Cardinality({j \in 1..Len(calls) : calls[j].op = "rm" /\ calls[j].wd = h})

\* C1: at most one directory watch and at most one file watch is live at the
\* OS in every state, and a step that re-registers the file watch for a create
\* record deregisters the previously live file watch before it calls the
\* registration.
C1_OneWatchEach ==
    /\ Cardinality(LiveDir) <= 1
    /\ Cardinality(LiveFile) <= 1
    /\ (last.op = "dirCreate" /\ last.preFile # NoDesc) =>
          \A j \in 1..Len(calls) :
             (calls[j].op = "add" /\ calls[j].path = "file") =>
                \E i \in 1..(j - 1) : calls[i] = RmCall("file", last.preFile)

\* C1 witness: a create record was processed while a file watch was live and
\* the watch was registered again.
C1_Witness ==
    /\ last.op = "dirCreate"
    /\ last.preFile # NoDesc
    /\ Len(calls) = 2
    /\ calls[2].op = "add"
    /\ fileWatchDesc # NoDesc

\* C2: after a create record for the target whose file watch registration
\* failed, the monitor is stopped: no read is outstanding on the byte source.
C2_StoppedAfterFailedRearm ==
    (last.op = "dirCreate" /\ FailedFileAdd) => (~readPending /\ pc = "idle")

\* C3: when the directory watch could not be registered in the constructor,
\* no read is ever issued, no file watch registration is attempted and no
\* event is dispatched.
C3_NoRunWithoutDirWatch ==
    (ctorExit = "noDir") =>
        /\ nReads = 0
        /\ ~readPending
        /\ pc = "idle"
        /\ ec = "none"
        /\ dispatched = <<>>
        /\ fileWatchDesc = NoDesc
        /\ LiveFile = {}
        /\ \A j \in 1..Len(calls) : ~(calls[j].op = "add" /\ calls[j].path = "file")

\* C3 witness: the constructor returned after the failed directory watch.
C3_Witness ==
    /\ ctorExit = "noDir"
    /\ last.op = "ctor"
    /\ calls = <<AddCall("dir", NoDesc)>>

\* the constructor registered the directory watch and failed to register the
\* file watch
CtorFileAbsent ==
    /\ last.op = "ctor"
    /\ Len(calls) = 2
    /\ calls[1].op = "add" /\ calls[1].path = "dir" /\ calls[1].wd # NoDesc
    /\ calls[2] = AddCall("file", NoDesc)

\* C4: when the constructor registers the directory watch and the file watch
\* registration fails, the first read is issued, dirHandle is live and
\* fileHandle is absent.
C4_RunsWithoutFile ==
    CtorFileAbsent =>
        /\ ctorExit = "done"
        /\ readPending
        /\ nReads = 1
        /\ dirWatchDesc = calls[1].wd
        /\ LiveDir = {[wd |-> dirWatchDesc, path |-> "dir"]}
        /\ fileWatchDesc = NoDesc
        /\ LiveFile = {}

\* C4 witness: such a construction, with its read outstanding.
C4_Witness == CtorFileAbsent /\ readPending

\* C5: a read that completes with an error stops the monitor: nothing is
\* decoded, no event is dispatched, no watch handle changes and no read is
\* issued again.
C5_ReadErrorStops ==
    /\ (ec = "error") => (~readPending /\ pc = "idle" /\ dispatched = <<>>)
    /\ (last.op = "error") => (ec = "error" /\ NoMutation)

\* C5 witness: a read of a running monitor with both watches live failed.
C5_Witness ==
    /\ last.op = "error"
    /\ dirWatchDesc # NoDesc
    /\ fileWatchDesc # NoDesc

\* C6: a directory-scoped record whose name is not the target filename (or
\* that has no name) dispatches no event and changes no watch, whatever its
\* mask.
C6_OtherNamesIgnored ==
    (DirScoped /\ last.name # fileName) => (dispatched = <<>> /\ NoMutation)

\* C6 witness: a create record for another entry went by while the file
\* watch was live.
C6_Witness ==
    /\ DirScoped
    /\ last.name = otherName
    /\ last.mask = IN_CREATE
    /\ last.preFile # NoDesc

\* C7: a create record for the target whose registration does not fail leaves
\* exactly one live file watch: with no file watch before, one registration;
\* with one before (a duplicate create), that one deregistered and a new one
\* registered.
C7_RearmLeavesOne ==
    (last.op = "dirCreate" /\ ~FailedFileAdd) =>
        /\ fileWatchDesc # NoDesc
        /\ LiveFile = {[wd |-> fileWatchDesc, path |-> "file"]}
        /\ calls = (IF last.preFile = NoDesc THEN <<>>
                    ELSE <<RmCall("file", last.preFile)>>)
                   \o <<AddCall("file", fileWatchDesc)>>

\* C7 witness: the second of two create records of one batch was processed,
\* the first having registered the file watch the second replaced.
C7_Witness ==
    /\ last.op = "dirCreate"
    /\ last.preFile # NoDesc
    /\ fileWatchDesc # NoDesc
    /\ index > iEventSize + last.len
    /\ EventAt(readBuffer, 0).wd = dirWatchDesc
    /\ EventAt(readBuffer, 0).mask = IN_CREATE
    /\ CStr(readBuffer, iEventSize) = fileName

\* C8: the destructor deregisters each handle that was live exactly once,
\* deregisters nothing else, and leaves no watch registered.
C8_TeardownRemovesEachOnce ==
    (last.op = "dtor") =>
        /\ osWatches = {}
        /\ dirWatchDesc = NoDesc
        /\ fileWatchDesc = NoDesc
        /\ \A j \in 1..Len(calls) : calls[j].op = "rm" /\ calls[j].wd # NoDesc
        /\ \A h \in Handles :
              RmCount(h) = (IF h \in {last.preDir, last.preFile} THEN 1 ELSE 0)

\* C8 witness: a monitor with both watches live was destroyed.
C8_Witness ==
    /\ last.op = "dtor"
    /\ last.preDir # NoDesc
    /\ last.preFile # NoDesc
    /\ Len(calls) = 2

\* C9: the truncated fragment that ends a batch never dispatches an event and
\* never changes a watch, whichever watch its header's descriptor belongs to.
C9_FragmentDropped ==
    (RecordStep /\ last.frag) => (dispatched = <<>> /\ NoMutation)

\* C10: after a create or moved-to record for the target filename is
\* processed, with no failed registration, fileHandle is live.
C10_LiveAfterCreateOrMovedIn ==
    ( /\ DirScoped
      /\ last.complete
      /\ last.name = fileName
      /\ last.mask \in {IN_CREATE, IN_MOVED_TO}
      /\ ~FailedFileAdd ) => fileWatchDesc # NoDesc

(***************************************************************************)
(* Further vocabulary.                                                     *)
(***************************************************************************)
\* the record of the latest step is a complete directory record for the target
TargetRecord == DirScoped /\ last.complete /\ last.name = fileName

\* the record of the latest step carried the descriptor of the live file watch
FileScoped == RecordStep /\ last.preFile # NoDesc /\ last.wd = last.preFile

\* the latest step left readEvents and the callback issued the next read
Rearmed == readPending /\ last.op \in (RecordOps \cup {"exit"})

NoFileEvent == \A j \in 1..Len(dispatched) : dispatched[j].handleKind # "File"

\* C11: after a delete or moved-from (moved-out) record for the target
\* filename is processed, fileHandle is absent.
C11_AbsentAfterDeleteOrMovedOut ==
    (TargetRecord /\ last.mask \in {IN_DELETE, IN_MOVED_FROM}) =>
        fileWatchDesc = NoDesc

\* C12: no read is outstanding while a batch is processed, and the next read
\* is issued only when every complete record of the batch has been processed.
C12_ReadAfterWholeBatch ==
    /\ readPending => pc = "idle"
    /\ Rearmed => ~last.more

\* C13: every complete record that carries the live file handle, or the
\* directory handle with the target name, causes exactly one event of its
\* kind, in buffer order: the cursor only moves forward, and processing of a
\* batch does not end with such a record left without its event.
C13_OneEventPerMatch ==
    /\ (RecordStep /\ last.complete /\ FileScoped) =>
          dispatched = <<FileEvent(last.mask)>>
    /\ TargetRecord => dispatched = <<DirEvent(last.mask, fileName)>>
    /\ (RecordStep /\ pc = "readEvents") => index > last.off
    /\ Rearmed => ~last.owed

\* C14: a file-scoped record, and a directory record for the target whose
\* mask is none of create, delete, moved-to, changes no descriptor and makes
\* no OS call.
C14_OtherMasksNoMutation ==
    ( \/ FileScoped
      \/ (TargetRecord /\ last.mask \notin {IN_CREATE, IN_DELETE, IN_MOVED_TO}) )
    => NoMutation

\* C14 witness: a record for the target with two bits set, create and is-dir,
\* went by while the file watch was live.
C14_Witness ==
    /\ TargetRecord
    /\ last.mask = IN_CREATE + IN_ISDIR
    /\ last.preFile # NoDesc

\* C15: a record whose descriptor is neither the live directory handle nor
\* the live file handle dispatches nothing, changes nothing, and the loop goes
\* on.
C15_UnknownDiscarded ==
    ( /\ RecordStep
      /\ last.wd # last.preDir
      /\ (last.preFile = NoDesc \/ last.wd # last.preFile) )
    => (dispatched = <<>> /\ NoMutation /\ pc = "readEvents")

\* C17: from a delete or moved-to record for the target until a create
\* registers the file watch again, no event with handleKind File is
\* dispatched.
C17_NoFileEventWhileGone == last.gone => NoFileEvent

\* C18: when the registration triggered by a create record fails, the create
\* event has been dispatched, fileHandle is absent, and readEvents is left:
\* the records that follow in the batch are not processed.
C18_FailedCreateEndsBatch ==
    (last.op = "dirCreate" /\ FailedFileAdd) =>
        /\ dispatched = <<DirEvent(IN_CREATE, fileName)>>
        /\ fileWatchDesc = NoDesc
        /\ LiveFile = {}
        /\ pc = "idle"
        /\ bytesTransferred = 0

\* C18 witness: the registration failed with complete records still to come.
C18_Witness ==
    /\ last.op = "dirCreate"
    /\ FailedFileAdd
    /\ last.more

\* C20: at the teardown of a monitor that reached Running, the notification
\* channel descriptor is closed exactly once.
C20_ChannelClosedOnce ==
    (last.op = "dtor" /\ ctorExit = "done") =>
        Cardinality({j \in 1..Len(closes) : closes[j] = inotifyFd}) = 1

\* the steps that build the filename string
NamedOps == {"dirOther", "dirCreate", "dirRemove", "dirDefault"}

\* C16: the name a step compared with the target filename is the name its
\* record's name field holds: the bytes up to the first NUL of the field or,
\* without one, all len bytes of it, and no byte after them.
C16_NameWithinField ==
    last.op \in NamedOps => last.cstr = last.name

\* one iteration of the decode loop, or its exit
ReadEventsStep ==
    \/ DirSkip
    \/ DirOtherName
    \/ DirCreate
    \/ DirRemove
    \/ DirDefault
    \/ FileRecord
    \/ UnknownRecord
    \/ LoopExit

\* C19: an iteration that goes round the loop again leaves the cursor at the
\* record's offset plus the header size plus its len, which is at least a
\* header further; the record it decoded had its header inside the valid
\* bytes, and the number of iterations so far times the header size is at
\* most the valid length; and readEvents can always take its next step.
C19_LoopAdvances ==
    /\ (RecordStep /\ pc = "readEvents") =>
          /\ index = last.off + iEventSize + last.len
          /\ index >= last.off + iEventSize
          /\ last.off + iEventSize <= bytesTransferred
          /\ last.iter * iEventSize <= bytesTransferred
    /\ RecordStep => last.iter * iEventSize <= last.off + iEventSize
    /\ (phase = "alive" /\ pc = "readEvents") => ENABLED ReadEventsStep

\* the second iteration of a batch decoded a record without a name or one
\* whose len runs past the valid bytes, on the skip, file and unknown paths
C19_Witness ==
    /\ last.op \in {"dirSkip", "file", "unknown"}
    /\ last.iter >= 2
    /\ last.len \in {0, HugeLen}
    /\ pc = "readEvents"

====
